---- MODULE Spec2Model ----
(***************************************************************************)
(* ChronoShift (src/app.py): a Streamlit page that converts a local date   *)
(* text to UTC under a timezone chosen from a selector, the selector being *)
(* optionally driven by a geocoded location search.                        *)
(*                                                                         *)
(* One user interaction = the widget's callback (if any) followed by one   *)
(* run of the page script from top to bottom.                              *)
(***************************************************************************)
EXTENDS Integers, Sequences, FiniteSets, TLC

VARIABLES
    date_input,                 \* st.session_state.date_input
    loc_input,                  \* st.session_state.loc_input
    manual_timezone_selector,   \* st.session_state.manual_timezone_selector
    cache,                      \* the st.cache_data store of get_timezone_from_string
    geocodeCalls,               \* number of geolocator.geocode calls made per query
    firstOutcome,               \* what the first resolution of each query returned
    last,                       \* what the last handler did (callback / lookup trace)
    display,                    \* what the last page run rendered
    z_offset,                   \* utcoffset (minutes) fed to the offset label, OffsetSpec only
    threads,                    \* ConcSpec only: each session's position inside the cached call
    value_locks,                \* ConcSpec only: the keys whose compute lock is held
    computed                    \* ConcSpec only: the outcomes computed so far for each key

vars == <<date_input, loc_input, manual_timezone_selector, cache,
          geocodeCalls, firstOutcome, last, display, z_offset,
          threads, value_locks, computed>>

(***************************************************************************)
(* Bounds                                                                  *)
(***************************************************************************)
MaxCalls == 2          \* cap on the per-query geocoder call counter
MaxOffsetHours == 14   \* OffsetSpec draws offsets from -MaxOffsetHours..MaxOffsetHours hours
NumSessions == 2       \* ConcSpec: number of sessions sharing the cache

(***************************************************************************)
(* Values                                                                  *)
(***************************************************************************)
None == "<None>"       \* Python None (zone / address / text absent)

\* Location texts the user can type.
Queries == {"", "   ", "London", "london", "Kyiv", "Point Nemo"}

\* Python truthiness of a str-or-None value
Truthy(s) == s # None /\ s # ""

\* pytz.all_timezones (the part of the catalog the model uses)
all_timezones == {"UTC", "Europe/London", "Asia/Kathmandu", "America/Sao_Paulo"}

(***************************************************************************)
(* Collaborators: Nominatim geocoder and TimezoneFinder                    *)
(***************************************************************************)
GeoRaise == [kind |-> "raise"]       \* timeout, transport error, any exception
GeoNoMatch == [kind |-> "none"]      \* geocode() returned None
Location(addr, lat, lng) ==
    [kind |-> "location", address |-> addr, latitude |-> lat, longitude |-> lng]

\* The matches the geocoding service knows (coordinates in whole degrees).
Gazetteer(q) ==
    CASE q \in {"London", "london"} -> {Location("London, UK", 51, 0)}
      [] q = "Point Nemo"           -> {Location("Point Nemo, South Pacific", -49, -123)}
      [] q = "Kyiv"                 -> {Location("Kyiv, Ukraine", 50, 31)}
      [] OTHER                      -> {}

\* Everything one geolocator.geocode(query, timeout=5) call can do: answer
\* with its match (None when it has none), or raise.
Geocode(q) == (IF Gazetteer(q) = {} THEN {GeoNoMatch} ELSE Gazetteer(q)) \cup {GeoRaise}

TfRaise == "<raise>"
\* tf.timezone_at(lng=, lat=): the zone whose polygon holds the point, None
\* for a point in no polygon.  The boundary dataset may name a zone that the
\* installed pytz catalog does not list (Europe/Kyiv).
timezone_at(lng, lat) ==
    CASE lat = 51 /\ lng = 0  -> "Europe/London"
      [] lat = 50 /\ lng = 31 -> "Europe/Kyiv"
      [] OTHER                -> None

\* Everything TimezoneFinder() + timezone_at can do for a location
TimezoneFinder(loc) == {timezone_at(loc.longitude, loc.latitude), TfRaise}

(***************************************************************************)
(* get_timezone_from_string, src/app.py:12-23                              *)
(***************************************************************************)
Returned(tz, addr) == [ret |-> [tz |-> tz, addr |-> addr], raised |-> FALSE]
Raised == [ret |-> [tz |-> None, addr |-> None], raised |-> TRUE]

NotFound == [tz |-> None, addr |-> None]

\* A handler that does not catch the exceptions of its body
BodyUncaught(geo, tf) ==
    IF geo.kind = "raise" THEN Raised
    ELSE IF geo.kind = "location"
         THEN IF tf = TfRaise THEN Raised ELSE Returned(tf, geo.address)
         ELSE Returned(None, None)

\* The undecorated body: try / geocode / timezone_at / bare except
get_timezone_from_string(geo, tf) ==
    IF geo.kind = "raise" THEN Returned(None, None)
    ELSE IF geo.kind = "location"
         THEN IF tf = TfRaise THEN Returned(None, None)
              ELSE Returned(tf, geo.address)
         ELSE Returned(None, None)

\* A memo that never finds its entry
cache_miss_always(c, q) == FALSE

\* @st.cache_data: is there a stored value for this argument?  The key is
\* the argument itself.
cache_hit(c, q) == q \in DOMAIN c

\* A memo that keeps successful results only
cache_store_success_only(c, q, v) ==
    IF v.tz = None THEN c
    ELSE [k \in DOMAIN c \cup {q} |-> IF k = q THEN v ELSE c[k]]

\* @st.cache_data: keep the returned value under the argument
cache_store(c, q, v) == [k \in DOMAIN c \cup {q} |-> IF k = q THEN v ELSE c[k]]

\* The decorated function: stored value on a hit, otherwise run the body
\* and store what it returned (nothing is stored when it raises).
cached_lookup(c, q, geo, tf) ==
    IF cache_hit(c, q)
    THEN [ret |-> c[q], raised |-> FALSE, called |-> FALSE, cache |-> c]
    ELSE LET r == get_timezone_from_string(geo, tf) IN
         [ret |-> r.ret, raised |-> r.raised, called |-> TRUE,
          cache |-> IF r.raised THEN c ELSE cache_store(c, q, r.ret)]


(***************************************************************************)
(* update_timezone_callback, src/app.py:25-38                              *)
(***************************************************************************)
CallbackResult(sel, toast, looked, r) ==
    [selector |-> sel, toast |-> toast, looked |-> looked, ret |-> r.ret,
     raised |-> r.raised, called |-> r.called, cache |-> r.cache]

NoLookup(c) == [ret |-> NotFound, raised |-> FALSE, called |-> FALSE, cache |-> c]

\* A callback that falls back to a default zone when the search fails
CallbackDefaultsToUTC(query, sel, c, geo, tf) ==
    IF Truthy(query)
    THEN LET r == cached_lookup(c, query, geo, tf) IN
         IF r.raised THEN CallbackResult(sel, "none", TRUE, r)
         ELSE IF r.ret.tz # None
              THEN CallbackResult(r.ret.tz, "updated", TRUE, r)
              ELSE CallbackResult("UTC", "not found", TRUE, r)
    ELSE CallbackResult(sel, "none", FALSE, NoLookup(c))

\* A callback that only fills an empty selector
CallbackKeepsSelection(query, sel, c, geo, tf) ==
    IF Truthy(query)
    THEN LET r == cached_lookup(c, query, geo, tf) IN
         IF r.raised THEN CallbackResult(sel, "none", TRUE, r)
         ELSE IF r.ret.tz # None
              THEN CallbackResult(IF sel = None THEN r.ret.tz ELSE sel, "updated", TRUE, r)
              ELSE CallbackResult(sel, "not found", TRUE, r)
    ELSE CallbackResult(sel, "none", FALSE, NoLookup(c))

\* A callback that takes a found address for a success
CallbackTestsAddress(query, sel, c, geo, tf) ==
    IF Truthy(query)
    THEN LET r == cached_lookup(c, query, geo, tf) IN
         IF r.raised THEN CallbackResult(sel, "none", TRUE, r)
         ELSE IF r.ret.addr # None
              THEN CallbackResult(r.ret.tz, "updated", TRUE, r)
              ELSE CallbackResult(sel, "not found", TRUE, r)
    ELSE CallbackResult(sel, "none", FALSE, NoLookup(c))

\* query = loc_input; if query: lookup; if detected_tz: write the selector
\* key and toast the address, else toast "Location not found".
update_timezone_callback(query, sel, c, geo, tf) ==
    IF Truthy(query)
    THEN LET r == cached_lookup(c, query, geo, tf) IN
         IF r.raised THEN CallbackResult(sel, "none", TRUE, r)
         ELSE IF r.ret.tz # None
              THEN CallbackResult(r.ret.tz, "updated", TRUE, r)
              ELSE CallbackResult(sel, "not found", TRUE, r)
    ELSE CallbackResult(sel, "none", FALSE, NoLookup(c))

(***************************************************************************)
(* Collaborators: dateutil parser and pytz                                 *)
(***************************************************************************)
DateTime(d, h, m, s, us) ==
    [day |-> d, hour |-> h, minute |-> m, second |-> s, microsecond |-> us]

\* day = ordinal day of 2026 (1 = Jan 1; 0 and below are days of 2025)
DaysBeforeMonth == <<0, 31, 59, 90, 120, 151, 181, 212, 243, 273, 304, 334>>
DayOfYear(month, d) == DaysBeforeMonth[month] + d
Feb03 == DayOfYear(2, 3)
Jul01 == DayOfYear(7, 1)
Mar29 == DayOfYear(3, 29)
Oct25 == DayOfYear(10, 25)
Today == DayOfYear(11, 4)      \* the wall clock's date

\* Date texts the user can type.
DateTexts == {"", "not a date", "2026-02-03 14:30",
              "2026-07-01 00:15:30.5", "2026-07-01 12:00 UTC"}

\* dateutil.parser.parse: a naive datetime, an aware one when the text
\* carries a zone, or ParserError.
parse(text) ==
    CASE text = "2026-02-03 14:30"      -> [kind |-> "naive", dt |-> DateTime(Feb03, 14, 30, 0, 0)]
      [] text = "2026-07-01 00:15:30.5" -> [kind |-> "naive", dt |-> DateTime(Jul01, 0, 15, 30, 500000)]
      [] text = "2026-07-01 12:00 UTC"  -> [kind |-> "aware", dt |-> DateTime(Jul01, 12, 0, 0, 0)]
      [] OTHER                          -> [kind |-> "raise"]

\* The zone's UTC offset, in minutes, for a naive local time, as pytz
\* localize(is_dst=False) picks it.  Europe/London is on BST (+60) from
\* 2026-03-29 02:00 to 2026-10-25 01:00 local time.
utcoffset(tz, dt) ==
    CASE tz = "UTC"               -> 0
      [] tz = "Asia/Kathmandu"    -> 345
      [] tz = "America/Sao_Paulo" -> -180
      [] tz = "Europe/London"     ->
            IF /\ (dt.day > Mar29 \/ (dt.day = Mar29 /\ dt.hour >= 2))
               /\ (dt.day < Oct25 \/ (dt.day = Oct25 /\ dt.hour < 1))
            THEN 60 ELSE 0

ToSeconds(dt) == dt.day * 86400 + dt.hour * 3600 + dt.minute * 60 + dt.second

FromSeconds(s, us) ==
    DateTime(s \div 86400, (s % 86400) \div 3600, (s % 3600) \div 60, s % 60, us)

\* Localizing with the offset the zone has today
localize_today(tz, dt) ==
    [naive |-> dt, offset |-> utcoffset(tz, DateTime(Today, 12, 0, 0, 0))]

\* source_tz.localize(dt_naive), src/app.py:95
localize(tz, dt) == [naive |-> dt, offset |-> utcoffset(tz, dt)]

\* dt_aware.astimezone(pytz.UTC), src/app.py:96
astimezone_utc(aware) ==
    FromSeconds(ToSeconds(aware.naive) - aware.offset * 60, aware.naive.microsecond)

\* dt_utc.strftime('%Y-%m-%d %H:%M:%S'), src/app.py:101
strftime_utc(dt) == [date |-> dt.day, H |-> dt.hour, M |-> dt.minute, S |-> dt.second]


(***************************************************************************)
(* Offset label, src/app.py:103-116                                        *)
(***************************************************************************)
Digits == <<"0", "1", "2", "3", "4", "5", "6", "7", "8", "9">>
DigitChar(n) == Digits[n + 1]
Abs(n) == IF n < 0 THEN 0 - n ELSE n

\* dt_aware.strftime('%z') for an offset of whole minutes: sign and HHMM
strftime_z(off) ==
    LET a == Abs(off)
        h == a \div 60
        m == a % 60
    IN <<IF off < 0 THEN "-" ELSE "+",
         DigitChar(h \div 10), DigitChar(h % 10),
         DigitChar(m \div 10), DigitChar(m % 10)>>

\* int() of a two-character decimal slice
int2(cs) ==
    LET val(c) == CHOOSE n \in 0..9 : Digits[n + 1] = c
    IN val(cs[1]) * 10 + val(cs[2])

\* f"{n}": decimal digits, no padding (n < 100)
str(n) == IF n < 10 THEN <<DigitChar(n)>> ELSE <<DigitChar(n \div 10), DigitChar(n % 10)>>

\* f"{n:02d}"
str02d(n) == <<DigitChar(n \div 10), DigitChar(n % 10)>>

UTC == <<"U", "T", "C">>

\* A label that assumes a positive sign
offset_str_plus(z) ==
    LET hours == int2(SubSeq(z, 2, 3))
        minutes == int2(SubSeq(z, 4, 5))
    IN IF minutes = 0 /\ hours = 0 THEN UTC
       ELSE IF minutes = 0 THEN UTC \o <<"+">> \o str(hours)
       ELSE UTC \o <<"+">> \o str(hours) \o <<":">> \o str02d(minutes)

\* sign = z[0]; hours = int(z[1:3]); minutes = int(z[3:5]); the three-way
\* choice of "UTC", "UTC{sign}{hours}", "UTC{sign}{hours}:{minutes:02d}"
offset_str(z) ==
    LET sign == z[1]
        hours == int2(SubSeq(z, 2, 3))
        minutes == int2(SubSeq(z, 4, 5))
    IN IF minutes = 0 /\ hours = 0 THEN UTC
       ELSE IF minutes = 0 THEN UTC \o <<sign>> \o str(hours)
       ELSE UTC \o <<sign>> \o str(hours) \o <<":">> \o str02d(minutes)

(***************************************************************************)
(* The page script: instant result block and footer, src/app.py:81-143     *)
(***************************************************************************)
\* "Waiting for a valid date format..." (the except branch); the script
\* goes on to render the Reset button.
Waiting == [kind |-> "waiting", reset_button |-> TRUE]
\* "Please select a timezone to proceed." then st.stop(): the script ends
\* there (StopException is not an Exception) and the footer is not rendered.
SelectTimezoneInfo == [kind |-> "info", reset_button |-> FALSE]
\* Nothing rendered by the block (empty date text)
Blank == [kind |-> "blank", reset_button |-> TRUE]

ConversionResult(tzname, dt_naive, dt_aware) ==
    [kind |-> "result", reset_button |-> TRUE,
     naive |-> dt_naive,
     utc |-> strftime_utc(astimezone_utc(dt_aware)),
     tz |-> tzname,
     offset |-> dt_aware.offset,
     offset_str |-> offset_str(strftime_z(dt_aware.offset))]

\* The conversion under a zone name: pytz.timezone raises for a name the
\* catalog does not list, localize raises for an aware datetime.
Convert(tzname, p) ==
    IF tzname \notin all_timezones THEN Waiting
    ELSE IF p.kind = "aware" THEN Waiting
    ELSE ConversionResult(tzname, p.dt, localize(tzname, p.dt))

\* A script that looks at the selector before parsing the date
ScriptRunZoneFirst(date_input_str, current_tz_name) ==
    IF ~Truthy(date_input_str) THEN Blank
    ELSE IF ~Truthy(current_tz_name) THEN SelectTimezoneInfo
    ELSE LET p == parse(date_input_str) IN
         IF p.kind = "raise" THEN Waiting
         ELSE Convert(current_tz_name, p)

\* A script that assumes UTC when no zone is selected
ScriptRunDefaultsToUTC(date_input_str, current_tz_name) ==
    IF ~Truthy(date_input_str) THEN Blank
    ELSE LET p == parse(date_input_str) IN
         IF p.kind = "raise" THEN Waiting
         ELSE IF ~Truthy(current_tz_name) THEN Convert("UTC", p)
         ELSE Convert(current_tz_name, p)

\* if date_input_str: try: parse; read the selector; if not current_tz_name:
\* info + stop; localize; astimezone; show; except Exception: caption
ScriptRun(date_input_str, current_tz_name) ==
    IF ~Truthy(date_input_str) THEN Blank
    ELSE LET p == parse(date_input_str) IN
         IF p.kind = "raise" THEN Waiting
         ELSE IF ~Truthy(current_tz_name) THEN SelectTimezoneInfo
         ELSE Convert(current_tz_name, p)


(***************************************************************************)
(* State machine                                                           *)
(***************************************************************************)
\* What the last handler did.  overwrote: the callback replaced a selection
\* by another zone; differs: a hit returned something else than a fresh call
\* would have; failed: the geocoding step of this call raised.
Trace(q, before, cb, fresh, failed) ==
    [op |-> "location", query |-> q, looked |-> cb.looked,
     ret |-> cb.ret, raised |-> cb.raised, called |-> cb.called, toast |-> cb.toast,
     overwrote |-> before \notin {None, cb.selector},
     differs |-> cb.looked /\ ~cb.called /\ fresh # cb.ret,
     failed |-> cb.called /\ failed]

Idle ==
    [op |-> "other", query |-> "", looked |-> FALSE,
     ret |-> NotFound, raised |-> FALSE, called |-> FALSE, toast |-> "none",
     overwrote |-> FALSE, differs |-> FALSE, failed |-> FALSE]

\* The sessions (script threads) of the server process
Sessions == 1 .. NumSessions

\* A session that is not inside get_timezone_from_string
IdleThread == [pc |-> "idle", query |-> "", missed |-> FALSE, value |-> NotFound, ret |-> NotFound]

Init ==
    /\ date_input = ""
    /\ loc_input = ""
    /\ manual_timezone_selector = None
    /\ cache = [q \in {} |-> NotFound]
    /\ geocodeCalls = [q \in Queries |-> 0]
    /\ firstOutcome = [q \in {} |-> NotFound]
    /\ last = Idle
    /\ display = ScriptRun("", None)
    /\ z_offset = 0
    /\ threads = [s \in Sessions |-> IdleThread]
    /\ value_locks = {}
    /\ computed = [q \in Queries |-> {}]

\* The user submits a new text in the location field: on_change runs
\* update_timezone_callback, then the page script runs.
SubmitLocation(q) ==
    /\ q # loc_input
    /\ geocodeCalls[q] < MaxCalls
    /\ \E geo \in Geocode(q) :
       \E tf \in (IF geo.kind = "location" THEN TimezoneFinder(geo) ELSE {None}) :
          LET cb == update_timezone_callback(q, manual_timezone_selector, cache, geo, tf)
              fresh == get_timezone_from_string(geo, tf).ret
              failed == geo.kind = "raise" \/ tf = TfRaise
          IN /\ loc_input' = q
             /\ manual_timezone_selector' = cb.selector
             /\ cache' = cb.cache
             /\ geocodeCalls' = IF cb.called
                                THEN [geocodeCalls EXCEPT ![q] = @ + 1]
                                ELSE geocodeCalls
             /\ firstOutcome' = IF cb.called /\ ~cb.raised /\ q \notin DOMAIN firstOutcome
                                THEN [k \in DOMAIN firstOutcome \cup {q} |->
                                         IF k = q THEN cb.ret ELSE firstOutcome[k]]
                                ELSE firstOutcome
             /\ last' = Trace(q, manual_timezone_selector, cb, fresh, failed)
             /\ display' = ScriptRun(date_input, cb.selector)
    /\ UNCHANGED <<date_input, z_offset, threads, value_locks, computed>>

\* The user submits a new text in the date field; the page script runs.
SubmitDate(d) ==
    /\ d # date_input
    /\ date_input' = d
    /\ last' = Idle
    /\ display' = ScriptRun(d, manual_timezone_selector)
    /\ UNCHANGED <<loc_input, manual_timezone_selector, cache, geocodeCalls, firstOutcome, z_offset, threads, value_locks, computed>>

\* The user picks an option of the selectbox, or clears it; the page
\* script runs.
SelectTimezone(z) ==
    /\ z # manual_timezone_selector
    /\ manual_timezone_selector' = z
    /\ last' = Idle
    /\ display' = ScriptRun(date_input, z)
    /\ UNCHANGED <<date_input, loc_input, cache, geocodeCalls, firstOutcome, z_offset, threads, value_locks, computed>>

\* The user clicks "Reset App" (rendered only when the script reached the
\* footer): every session_state key is deleted and the script reruns with
\* the widgets' defaults.  The st.cache_data store is not session state.
ResetApp ==
    /\ display.reset_button
    /\ date_input' = ""
    /\ loc_input' = ""
    /\ manual_timezone_selector' = None
    /\ last' = [Idle EXCEPT !.op = "reset"]
    /\ display' = ScriptRun("", None)
    /\ UNCHANGED <<cache, geocodeCalls, firstOutcome, z_offset, threads, value_locks, computed>>

Next ==
    \/ \E q \in Queries : SubmitLocation(q)
    \/ \E d \in DateTexts : SubmitDate(d)
    \/ \E z \in all_timezones \cup {None} : SelectTimezone(z)
    \/ ResetApp

Spec == Init /\ [][Next]_vars

(***************************************************************************)
(* The offset label as a function of the offset: every whole-minute offset *)
(* in range is fed to the display code of src/app.py:96-116.               *)
(***************************************************************************)
Offsets == (0 - MaxOffsetHours * 60) .. (MaxOffsetHours * 60)

OffsetSpecInit ==
    /\ date_input = ""
    /\ loc_input = ""
    /\ manual_timezone_selector = None
    /\ cache = [q \in {} |-> NotFound]
    /\ geocodeCalls = [q \in Queries |-> 0]
    /\ firstOutcome = [q \in {} |-> NotFound]
    /\ last = Idle
    /\ display = ScriptRun("", None)
    /\ z_offset \in Offsets
    /\ threads = [s \in Sessions |-> IdleThread]
    /\ value_locks = {}
    /\ computed = [q \in Queries |-> {}]

\* Render the result for an aware datetime whose utcoffset is z_offset
ShowOffset ==
    /\ display.kind = "blank"
    /\ display' = ConversionResult(None, DateTime(Feb03, 14, 30, 0, 0),
                                   [naive |-> DateTime(Feb03, 14, 30, 0, 0), offset |-> z_offset])
    /\ UNCHANGED <<date_input, loc_input, manual_timezone_selector, cache,
                   geocodeCalls, firstOutcome, last, z_offset, threads, value_locks, computed>>

OffsetNext == ShowOffset

OffsetSpec == OffsetSpecInit /\ [][OffsetNext]_vars


(***************************************************************************)
(* Concurrent sessions calling the decorated get_timezone_from_string,     *)
(* src/app.py:12-23, one step at a time: read the store; on a miss take    *)
(* the key's compute lock, read again, run the body, write, release.       *)
(***************************************************************************)
\* The location texts the concurrent sessions look up
ConcQueries == {"London", "Point Nemo"}

\* A store without a compute lock
lock_never_held(locks, k) == TRUE

\* @st.cache_data: the compute lock of a key can be taken when no session
\* holds it
lock_available(locks, k) == k \notin locks

uiVars == <<date_input, loc_input, manual_timezone_selector, firstOutcome, last, display, z_offset>>

\* A session's callback calls get_timezone_from_string(q)
Call(s, q) ==
    /\ threads[s].pc = "idle"
    /\ threads' = [threads EXCEPT ![s] = [IdleThread EXCEPT !.pc = "read", !.query = q]]
    /\ UNCHANGED <<cache, geocodeCalls, value_locks, computed, uiVars>>

\* First read of the store, without the lock
Read(s) ==
    /\ threads[s].pc = "read"
    /\ threads' = [threads EXCEPT ![s] =
                      IF cache_hit(cache, @.query)
                      THEN [@ EXCEPT !.pc = "done", !.ret = cache[threads[s].query]]
                      ELSE [@ EXCEPT !.pc = "wait", !.missed = TRUE]]
    /\ UNCHANGED <<cache, geocodeCalls, value_locks, computed, uiVars>>

\* Take the key's compute lock
Acquire(s) ==
    /\ threads[s].pc = "wait"
    /\ lock_available(value_locks, threads[s].query)
    /\ value_locks' = value_locks \cup {threads[s].query}
    /\ threads' = [threads EXCEPT ![s].pc = "locked"]
    /\ UNCHANGED <<cache, geocodeCalls, computed, uiVars>>

\* Second read, under the lock: another session may have stored the value
Recheck(s) ==
    /\ threads[s].pc = "locked"
    /\ IF cache_hit(cache, threads[s].query)
       THEN /\ threads' = [threads EXCEPT ![s] = [@ EXCEPT !.pc = "done", !.ret = cache[threads[s].query]]]
            /\ value_locks' = value_locks \ {threads[s].query}
       ELSE /\ threads' = [threads EXCEPT ![s].pc = "compute"]
            /\ UNCHANGED value_locks
    /\ UNCHANGED <<cache, geocodeCalls, computed, uiVars>>

\* Run the body: one geocoder call, whatever it answers this time
Compute(s) ==
    /\ threads[s].pc = "compute"
    /\ geocodeCalls[threads[s].query] < MaxCalls
    /\ \E geo \in Geocode(threads[s].query) :
       \E tf \in (IF geo.kind = "location" THEN TimezoneFinder(geo) ELSE {None}) :
          LET v == get_timezone_from_string(geo, tf).ret IN
          /\ threads' = [threads EXCEPT ![s] = [@ EXCEPT !.pc = "write", !.value = v]]
          /\ computed' = [computed EXCEPT ![threads[s].query] = @ \cup {v}]
    /\ geocodeCalls' = [geocodeCalls EXCEPT ![threads[s].query] = @ + 1]
    /\ UNCHANGED <<cache, value_locks, uiVars>>

\* Store the computed value, release the lock, return the value
Write(s) ==
    /\ threads[s].pc = "write"
    /\ cache' = cache_store(cache, threads[s].query, threads[s].value)
    /\ value_locks' = value_locks \ {threads[s].query}
    /\ threads' = [threads EXCEPT ![s] = [@ EXCEPT !.pc = "done", !.ret = threads[s].value]]
    /\ UNCHANGED <<geocodeCalls, computed, uiVars>>

\* The caller takes the returned value; the session is free for a new call
Return(s) ==
    /\ threads[s].pc = "done"
    /\ threads' = [threads EXCEPT ![s] = IdleThread]
    /\ UNCHANGED <<cache, geocodeCalls, value_locks, computed, uiVars>>

ConcNext ==
    \E s \in Sessions :
        \/ \E q \in ConcQueries : Call(s, q)
        \/ Read(s)
        \/ Acquire(s)
        \/ Recheck(s)
        \/ Compute(s)
        \/ Write(s)
        \/ Return(s)

ConcSpec == Init /\ [][ConcNext]_vars

(***************************************************************************)
(* Properties                                                              *)
(***************************************************************************)
\* The step is a location search that looked query q up
LookupStep(q) == loc_input' = q /\ loc_input # q /\ last'.looked

\* C1: every lookup returns the outcome stored by the first resolution of
\* its query text, and the geocoder is called at most once per query text,
\* whatever the geocoder would answer on a later call.
C1_RepeatedLookupReusesFirstResolution ==
    /\ \A q \in Queries : geocodeCalls[q] <= 1
    /\ last.looked =>
          /\ last.query \in DOMAIN firstOutcome
          /\ last.ret = firstOutcome[last.query]

\* A repeated lookup served from the store although a fresh call would
\* have answered differently.
C1_Witness ==
    /\ last.looked /\ ~last.called /\ last.differs
    /\ geocodeCalls[last.query] = 1
    /\ last.ret = firstOutcome[last.query]

\* C2: once a query has produced a failure (no match, no zone, or an
\* exception), every later lookup of it returns that same failure and makes
\* no geocoder call.
C2_FailureIsCached ==
    [][\A q \in Queries :
          (q \in DOMAIN firstOutcome /\ firstOutcome[q].tz = None /\ LookupStep(q))
          => /\ last'.ret = firstOutcome[q]
             /\ ~last'.called
             /\ geocodeCalls'[q] = geocodeCalls[q]]_vars

\* A cached failure returned where a fresh call would have found the place.
C2_Witness ==
    /\ last.looked /\ ~last.called /\ last.differs
    /\ last.ret = NotFound
    /\ geocodeCalls[last.query] = 1

\* C3: a location search whose lookup returns no zone leaves the selected
\* timezone as it was, whatever it was.
C3_FailedSearchKeepsSelection ==
    [][\A q \in Queries :
          (LookupStep(q) /\ last'.ret.tz = None)
          => manual_timezone_selector' = manual_timezone_selector]_vars

\* A failed search with a zone selected beforehand, still selected.
C3_Witness ==
    /\ last.looked /\ last.ret.tz = None /\ last.toast = "not found"
    /\ manual_timezone_selector \in all_timezones

\* C4: no exception leaves the lookup, and a lookup whose geocoder or zone
\* resolver raised returns (None, None).
C4_FailureReturnsNotFound ==
    /\ ~last.raised
    /\ last.failed => last.ret = NotFound

\* A lookup whose geocoding step raised and that returned (None, None).
C4_Witness ==
    last.looked /\ last.called /\ last.failed /\ last.ret = NotFound /\ ~last.raised

\* Empty and whitespace-only location texts
BlankQueries == {"", "   "}

\* C5: a lookup for an empty or whitespace-only query returns (None, None)
\* and no geocoder call is made for such a query.
C5_BlankQueryMakesNoGeocoderCall ==
    /\ \A q \in BlankQueries : geocodeCalls[q] = 0
    /\ (last.looked /\ last.query \in BlankQueries) => (last.ret = NotFound /\ ~last.called)

\* C6: a date text that is entered and cannot be parsed ends in the
\* "invalid format" outcome whatever the selector holds.
C6_UnparseableDateFirst ==
    (Truthy(date_input) /\ parse(date_input).kind = "raise") => display = Waiting

\* An unparseable date with no zone selected, reported as invalid format.
C6_Witness ==
    /\ Truthy(date_input) /\ parse(date_input).kind = "raise"
    /\ manual_timezone_selector = None
    /\ display.kind = "waiting"

\* C7: a parseable date text with no timezone selected ends in the
\* "select a timezone" outcome; no UTC result is shown.
C7_NoZoneSelected ==
    (Truthy(date_input) /\ parse(date_input).kind # "raise" /\ ~Truthy(manual_timezone_selector))
    => display = SelectTimezoneInfo

\* A parseable date with nothing selected, answered by the info message.
C7_Witness ==
    /\ Truthy(date_input) /\ parse(date_input).kind = "naive"
    /\ manual_timezone_selector = None
    /\ display.kind = "info"

StampSeconds(u) == u.date * 86400 + u.H * 3600 + u.M * 60 + u.S

\* C8: for a date text parsed to a naive timestamp and a selected catalog
\* zone, a UTC timestamp is shown and it equals the naive timestamp minus
\* the zone's offset in force at that date, in whole seconds; 2026-02-03
\* 14:30 under Asia/Kathmandu shows 08:45:00 of the same day.
C8_UtcIsNaiveMinusOffsetAtDate ==
    /\ (Truthy(date_input) /\ parse(date_input).kind = "naive"
        /\ manual_timezone_selector \in all_timezones)
       => /\ display.kind = "result"
          /\ display.tz = manual_timezone_selector
          /\ display.naive = parse(date_input).dt
    /\ display.kind = "result"
       => /\ StampSeconds(display.utc)
                = ToSeconds(display.naive) - utcoffset(display.tz, display.naive) * 60
          /\ display.utc.H \in 0..23 /\ display.utc.M \in 0..59 /\ display.utc.S \in 0..59
    /\ (date_input = "2026-02-03 14:30" /\ manual_timezone_selector = "Asia/Kathmandu")
       => display.utc = [date |-> Feb03, H |-> 8, M |-> 45, S |-> 0]

\* A summer date under Europe/London (offset then +1:00, today 0), with a
\* fraction of a second, shown as the previous day 23:15:30.
C8_Witness ==
    /\ display.kind = "result"
    /\ display.tz = "Europe/London"
    /\ display.naive.microsecond # 0
    /\ display.utc = [date |-> Jul01 - 1, H |-> 23, M |-> 15, S |-> 30]

\* Decimal digits of n < 100, as the label shows a number
Decimal(n) == IF n < 10 THEN <<Digits[n + 1]>> ELSE <<Digits[(n \div 10) + 1], Digits[(n % 10) + 1]>>

\* The label the offset-formatting law gives an offset of whole minutes
ExpectedLabel(off) ==
    LET s == IF off < 0 THEN "-" ELSE "+"
        h == Abs(off) \div 60
        m == Abs(off) % 60
    IN IF off = 0 THEN <<"U", "T", "C">>
       ELSE IF m = 0 THEN <<"U", "T", "C", s>> \o Decimal(h)
       ELSE <<"U", "T", "C", s>> \o Decimal(h) \o <<":", Digits[(m \div 10) + 1], Digits[(m % 10) + 1]>>

\* C9: the offset label is "UTC" for offset zero, "UTC<sign>H" when the
\* minute component is zero and "UTC<sign>H:MM" otherwise, the sign being
\* the offset's; 0, +5:30, -3:00 and +5:45 give "UTC", "UTC+5:30", "UTC-3"
\* and "UTC+5:45".
C9_OffsetLabel ==
    display.kind = "result" =>
       /\ display.offset_str = ExpectedLabel(display.offset)
       /\ display.offset = 0 => display.offset_str = <<"U", "T", "C">>
       /\ display.offset = 330 => display.offset_str = <<"U", "T", "C", "+", "5", ":", "3", "0">>
       /\ display.offset = -180 => display.offset_str = <<"U", "T", "C", "-", "3">>
       /\ display.offset = 345 => display.offset_str = <<"U", "T", "C", "+", "5", ":", "4", "5">>

\* A negative offset with a one-digit minute component: -9:05
C9_Witness ==
    /\ display.kind = "result"
    /\ display.offset = -545
    /\ display.offset_str = <<"U", "T", "C", "-", "9", ":", "0", "5">>

\* C10: when the callback's lookup yields a zone, the selector holds that
\* zone when the callback returns, whatever it held before.
C10_SuccessfulSearchSetsSelector ==
    (last.looked /\ ~last.raised /\ last.ret.tz # None)
    => manual_timezone_selector = last.ret.tz

\* A successful search that replaced another selected zone.
C10_Witness ==
    /\ last.looked /\ last.ret.tz # None /\ last.overwrote
    /\ manual_timezone_selector = last.ret.tz


\* The normalized form of a location text: trimmed and case-folded
Normalize(q) ==
    CASE q \in {"London", "london"} -> "london"
      [] q = "Kyiv"                 -> "kyiv"
      [] q = "Point Nemo"           -> "point nemo"
      [] OTHER                      -> ""

\* C11: location texts that differ only in letter case or surrounding
\* whitespace resolve to the same zone identifier.
C11_VariantsResolveToSameZone ==
    \A q1 \in DOMAIN cache : \A q2 \in DOMAIN cache :
        Normalize(q1) = Normalize(q2) => cache[q1].tz = cache[q2].tz

\* C12: two lookups whose texts differ only in case or surrounding
\* whitespace share one cache entry: together they make at most one
\* geocoder call and leave at most one entry.
C12_VariantsShareOneEntry ==
    \A q1 \in Queries : \A q2 \in Queries :
        (q1 # q2 /\ Normalize(q1) = Normalize(q2))
        => /\ geocodeCalls[q1] + geocodeCalls[q2] <= 1
           /\ ~(q1 \in DOMAIN cache /\ q2 \in DOMAIN cache)

\* C13: when the place is found but has no zone, the callback reports
\* "Location not found", reports no success and leaves the selected
\* timezone unchanged, as for a place that is not found.
C13_ZoneUnresolvedIsNotFound ==
    [][\A q \in Queries :
          (LookupStep(q) /\ last'.ret.tz = None /\ last'.ret.addr # None)
          => /\ last'.toast = "not found"
             /\ manual_timezone_selector' = manual_timezone_selector]_vars

\* A place found without a zone, reported as not found, a zone still selected.
C13_Witness ==
    /\ last.looked /\ last.ret.tz = None /\ last.ret.addr # None
    /\ last.toast = "not found"
    /\ manual_timezone_selector \in all_timezones

\* C14: after the Reset App handler the lookup cache holds no entries.
C14_ResetClearsCache ==
    last.op = "reset" => DOMAIN cache = {}

\* C15: the selected timezone is absent or a member of the catalog.
C15_SelectorInCatalog ==
    manual_timezone_selector \in all_timezones \cup {None}

\* C17: the Reset App control is rendered after every page run.
C17_ResetAlwaysRendered ==
    display.reset_button


\* C16: under every interleaving of the sessions' read, compute and write
\* steps, the entry stored for a key is an outcome computed for that key,
\* every lookup returns an outcome computed for its own key, and two
\* sessions that looked the same key up, both missing included, return the
\* same outcome.
C16_ConcurrentLookupsAgree ==
    /\ \A k \in DOMAIN cache : cache[k] \in computed[k]
    /\ \A s \in Sessions :
          threads[s].pc = "done" => threads[s].ret \in computed[threads[s].query]
    /\ \A s \in Sessions : \A t \in Sessions :
          (threads[s].pc = "done" /\ threads[t].pc = "done"
           /\ threads[s].query = threads[t].query)
          => threads[s].ret = threads[t].ret

\* Two sessions that both missed on the same key and have both returned.
C16_Witness ==
    \E s \in Sessions : \E t \in Sessions :
        /\ s # t
        /\ threads[s].pc = "done" /\ threads[t].pc = "done"
        /\ threads[s].query = threads[t].query
        /\ threads[s].missed /\ threads[t].missed
        /\ threads[s].ret = threads[t].ret
        /\ threads[s].ret = cache[threads[s].query]

====
